---- MODULE Spec2Model ----
(***************************************************************************)
(* media-snap backend: the session aggregator (services/session_manager),  *)
(* its process-wide session cache, and the capture orchestrator            *)
(* (routers/captures): take_screenshot, take_clip, the detached            *)
(* _process_clip and delete_capture, over the captures table and the       *)
(* capture directory.                                                      *)
(*                                                                         *)
(* Seconds are modelled as integers.  An Optional[...] value is a sequence *)
(* of length at most one: None is << >> and a present value v is <<v>>.    *)
(* A handler is cut into steps at the awaits where another coroutine of    *)
(* the event loop can observe or change shared state.                      *)
(***************************************************************************)
EXTENDS Integers, Sequences, FiniteSets, Bags, TLC

VARIABLES
    cache,      \* session_manager._session_cache: session_id -> Session
    refresh,    \* the get_all_sessions calls in flight: a bag of their gather results
    installed,  \* the list returned by the get_all_sessions call that finished last
    store,      \* the captures table: capture id -> row
    files,      \* capture ids whose artifact file exists in capture_dir
    shots,      \* take_screenshot calls awaiting extract_screenshot
    tasks,      \* clip work: capture id -> the _process_clip task of that clip
    nextId,     \* number of capture ids generated so far (uuid4: never reused)
    last        \* the step taken last, and what it answered to its caller

vars == <<cache, refresh, installed, store, files, shots, tasks, nextId, last>>

----------------------------------------------------------------------------
(* Bounds of the model *)

\* concurrent get_all_sessions calls
MaxRefresh == 2
\* playback sessions one upstream server reports
MaxUpstream == 1
\* capture requests accepted in one run
MaxCaptures == 1
\* rows in the captures table when it is listed
MaxListed == 3
\* the largest timestamp of the run of consecutive seconds handed to
\* extract_screenshot
MaxSeekSeconds == 130

(* Program constants *)

\* captures.py:147  "Maximum clip duration is 10 minutes"
MaxClipSeconds == 600

----------------------------------------------------------------------------
(* Values *)

None == << >>
Some(v) == <<v>>

Max(a, b) == IF a >= b THEN a ELSE b
Min(a, b) == IF a <= b THEN a ELSE b

Sources == {"plex", "jellyfin"}

\* session_manager.get_all_sessions: tasks = [plex.get_sessions(), jellyfin.get_sessions()]
AdapterOrder == <<"plex", "jellyfin">>

\* plex.py: session_id = f"plex-{sid}", jellyfin.py: f"jf-{Id}"
SessionId(source, n) == <<source, n>>

\* models.Session (the fields the aggregator and the orchestrator read)
Session(source, n, path, pos, dur) ==
    [session_id |-> SessionId(source, n), source |-> source, media_path |-> path,
     position_seconds |-> pos, duration_seconds |-> dur]

----------------------------------------------------------------------------
(* Upstream servers: what a session query can answer *)

\* the file path an upstream entry carries; "" when it carries none
Paths == {"", "/media/a.mkv"}

\* (position, duration) of the playbacks the upstream servers report
PlayStates ==
    {[pos |-> 0, dur |-> 0], [pos |-> 100, dur |-> 120], [pos |-> 200, dur |-> 1000],
     [pos |-> 900, dur |-> 1000]}

\* the playback the lifecycle runs capture from
OnePlayState == {[pos |-> 200, dur |-> 1000]}

UpstreamEntries(n, states) ==
    {[sid |-> n, path |-> f, pos |-> ps.pos, dur |-> ps.dur] : f \in Paths, ps \in states}

\* the responses of one upstream server: entries with distinct session ids
RECURSIVE UpstreamResponses(_, _)
UpstreamResponses(n, states) ==
    IF n = 0 THEN {<< >>}
    ELSE LET prev == UpstreamResponses(n - 1, states)
         IN  prev \cup {Append(s, e) : s \in prev, e \in UpstreamEntries(n, states)}

\* what an upstream entry carries for its picture (the thumb attribute of a
\* Plex Video, the Id of a Jellyfin NowPlayingItem); "" when it carries none
Arts(source) == IF source = "plex" THEN {"", "/library/metadata/7/thumb"} ELSE {"", "item7"}

\* the answers of one upstream server with the picture of each entry
RECURSIVE PictureResponses(_, _, _)
PictureResponses(source, n, states) ==
    IF n = 0 THEN {<< >>}
    ELSE LET prev == PictureResponses(source, n - 1, states)
         IN  prev \cup {Append(r, [sid |-> e.sid, path |-> e.path, pos |-> e.pos,
                                   dur |-> e.dur, art |-> art]) :
                           r \in prev, e \in UpstreamEntries(n, states), art \in Arts(source)}

----------------------------------------------------------------------------
(* Source adapters *)

RECURSIVE SessionsOf(_, _)
SessionsOf(source, resp) ==
    IF resp = << >> THEN << >>
    ELSE LET e == Head(resp)
             rest == SessionsOf(source, Tail(resp))
         IN  IF e.path = "" THEN rest
             ELSE <<Session(source, e.sid, e.path, e.pos, e.dur)>> \o rest

\* the Plex loop without its two `continue`s: every Video becomes a session
RECURSIVE PlexGetSessionsNoSkip(_)
PlexGetSessionsNoSkip(resp) ==
    IF resp = << >> THEN << >>
    ELSE LET e == Head(resp)
         IN  <<Session("plex", e.sid, e.path, e.pos, e.dur)>>
             \o PlexGetSessionsNoSkip(Tail(resp))

\* plex.get_sessions on an upstream answer: a Video without a Part file is skipped
PlexGetSessions(resp) == SessionsOf("plex", resp)

\* jellyfin.get_sessions on an upstream answer: an item without a MediaSources
\* Path is skipped
JellyfinGetSessions(resp) == SessionsOf("jellyfin", resp)

GetSessions(source, resp) ==
    IF source = "plex" THEN PlexGetSessions(resp) ELSE JellyfinGetSessions(resp)

\* config.Settings: the upstream base URLs and credentials
Settings(token, key) ==
    [plex_url |-> "http://plex:32400", plex_token |-> token,
     jellyfin_url |-> "http://jellyfin:8096", jellyfin_api_key |-> key]

PlexTokens == {"plextokenA", "plextokenB"}
JellyfinApiKeys == {"jfkeyA", "jfkeyB"}

\* a text is a sequence of pieces, each a string as written or the
\* percent-encoding of a string
Lit(str) == [text |-> str, encoded |-> FALSE]

\* the strings made of letters, digits and "_.-~" only
UnreservedStrings == PlexTokens \cup JellyfinApiKeys \cup {"item7"}

\* urllib.parse.quote(text, safe=''): unreserved characters stay as they
\* are, every other piece is percent-encoded
Quote(text) ==
    [i \in DOMAIN text |->
        IF text[i].text \in UnreservedStrings THEN text[i]
        ELSE [text[i] EXCEPT !.encoded = TRUE]]

\* plex.py lines 57-66: the thumb attribute of the Video, wrapped in a
\* transcode path, quoted into the proxy path; "" without a thumb
PlexThumbnailUrl(settings, thumb) ==
    IF thumb = "" THEN << >>
    ELSE <<Lit("/api/proxy/plex?path=")>>
         \o Quote(<<Lit("/photo/:/transcode?width=400&height=225&minSize=1&url="),
                    Lit(thumb)>>)

\* jellyfin.py lines 55-63: the image URL of the item on the upstream
\* server, quoted into the proxy path; "" without an item Id
JellyfinThumbnailUrl(settings, item_id) ==
    IF item_id = "" THEN << >>
    ELSE <<Lit("/api/proxy/thumbnail?url=")>>
         \o Quote(<<Lit(settings.jellyfin_url), Lit("/Items/"), Lit(item_id),
                    Lit("/Images/Primary?maxWidth=400&quality=80&api_key="),
                    Lit(settings.jellyfin_api_key)>>)

\* the thumbnail_url of the sessions an adapter builds from an answer, in
\* the order of the sessions
RECURSIVE ThumbnailsOf(_, _, _)
ThumbnailsOf(source, settings, resp) ==
    IF resp = << >> THEN << >>
    ELSE LET e == Head(resp)
             rest == ThumbnailsOf(source, settings, Tail(resp))
         IN  IF e.path = "" THEN rest
             ELSE <<IF source = "plex" THEN PlexThumbnailUrl(settings, e.art)
                    ELSE JellyfinThumbnailUrl(settings, e.art)>> \o rest

----------------------------------------------------------------------------
(* Session aggregator *)

Running == [st |-> "running", result |-> << >>]
Raised == [st |-> "err", result |-> << >>]
Returned(sessions) == [st |-> "ok", result |-> sessions]

\* get_all_sessions lines 25-29: the results of gather in task order, an
\* exception skipped (continue), a list appended (extend)
RECURSIVE MergeFrom(_, _)
MergeFrom(results, i) ==
    IF i > Len(AdapterOrder) THEN << >>
    ELSE LET res == results[AdapterOrder[i]]
         IN  IF res.st = "err" THEN MergeFrom(results, i + 1)
             ELSE res.result \o MergeFrom(results, i + 1)

\* the loop leaving at the first exception (break for continue)
RECURSIVE MergeUntilError(_, _)
MergeUntilError(results, i) ==
    IF i > Len(AdapterOrder) THEN << >>
    ELSE LET res == results[AdapterOrder[i]]
         IN  IF res.st = "err" THEN << >>
             ELSE res.result \o MergeUntilError(results, i + 1)

MergeResultsBreak(results) == MergeUntilError(results, 1)

MergeResults(results) == MergeFrom(results, 1)

\* get_all_sessions lines 32-34: clear the cache, then cache[s.session_id] = s
\* for each session in order.  No await separates the statements.
RECURSIVE FillCache(_, _)
FillCache(c, sessions) ==
    IF sessions = << >> THEN c
    ELSE LET s == Head(sessions)
         IN  FillCache((s.session_id :> s) @@ c, Tail(sessions))

EmptyCache == << >>

\* the cache filled without being cleared first
UpdateCacheNoClear(old, sessions) == FillCache(old, sessions)

\* the cache cleared and refilled with the first session only, the state a
\* reader would find if the loop gave the event loop a turn
UpdateCacheTorn(old, sessions) ==
    FillCache(EmptyCache, IF sessions = << >> THEN << >> ELSE <<Head(sessions)>>)

UpdateCache(old, sessions) == FillCache(EmptyCache, sessions)

\* get_cached_session: _session_cache.get(session_id)
GetCachedSession(c, session_id) ==
    IF session_id \in DOMAIN c THEN Some(c[session_id]) ELSE None

\* a call that has just handed its coroutines to gather
NewCall == [a \in Sources |-> Running]

Replace(bag, old, new) == (bag (-) SetToBag({old})) (+) SetToBag({new})

\* get_all_sessions lines 18-22: both coroutines are created and handed to
\* asyncio.gather, which schedules them all before the caller is suspended
GetAllSessionsCall ==
    /\ BagCardinality(refresh) < MaxRefresh
    /\ refresh' = refresh (+) SetToBag({NewCall})
    /\ last' = [op |-> "get_all_sessions.call"]
    /\ UNCHANGED <<cache, installed, store, files, shots, tasks, nextId>>

\* what one adapter call can deliver to gather when its server reports at
\* most n playbacks
AdapterOutcomesUpTo(a, n, states) ==
    {Raised} \cup {Returned(GetSessions(a, resp)) : resp \in UpstreamResponses(n, states)}

\* what one adapter call can deliver to gather
AdapterOutcomes(a, states) == AdapterOutcomesUpTo(a, MaxUpstream, states)

\* one adapter call of a get_all_sessions in flight returns its list
AdapterReturn(call, a, states) ==
    /\ BagIn(call, refresh)
    /\ call[a].st = "running"
    /\ \E out \in AdapterOutcomes(a, states) \ {Raised} :
          refresh' = Replace(refresh, call, [call EXCEPT ![a] = out])
    /\ last' = [op |-> "get_sessions"]
    /\ UNCHANGED <<cache, installed, store, files, shots, tasks, nextId>>

\* the exception of one call cancelling the calls still running
AdapterRaiseCancelsOthers(call, a) ==
    /\ BagIn(call, refresh)
    /\ call[a].st = "running"
    /\ refresh' = Replace(refresh, call,
                          [b \in Sources |-> IF call[b].st = "running" THEN Raised ELSE call[b]])
    /\ last' = [op |-> "get_sessions"]
    /\ UNCHANGED <<cache, installed, store, files, shots, tasks, nextId>>

\* one adapter call raises (timeout, non-2xx answer, malformed payload);
\* gather(return_exceptions=True) keeps the exception as that call's result
AdapterRaise(call, a) ==
    /\ BagIn(call, refresh)
    /\ call[a].st = "running"
    /\ refresh' = Replace(refresh, call, [call EXCEPT ![a] = Raised])
    /\ last' = [op |-> "get_sessions"]
    /\ UNCHANGED <<cache, installed, store, files, shots, tasks, nextId>>

\* get_all_sessions lines 23-36 on the results gather delivered: merge,
\* replace the cache, return the merged list
MergeAndCache(results) ==
    LET sessions == MergeResults(results)
    IN  /\ cache' = UpdateCache(cache, sessions)
        /\ installed' = sessions
        /\ last' = [op |-> "get_all_sessions", results |-> results,
                    failed |-> {a \in Sources : results[a].st = "err"},
                    evicted |-> DOMAIN cache \ DOMAIN UpdateCache(cache, sessions) # {}]

\* get_all_sessions lines 22-36, once every adapter call has finished
GetAllSessionsReturn(call) ==
    /\ BagIn(call, refresh)
    /\ \A a \in Sources : call[a].st # "running"
    /\ MergeAndCache(call)
    /\ refresh' = refresh (-) SetToBag({call})
    /\ UNCHANGED <<store, files, shots, tasks, nextId>>

\* a whole get_all_sessions call, from its call to its return, seen from
\* the capture handlers: its one shared effect is the cache replacement.
\* The capture requests of these runs name the first playback of a server,
\* so each server reports at most that one.
GetAllSessions(states) ==
    /\ \E rp \in AdapterOutcomesUpTo("plex", 1, states),
          rj \in AdapterOutcomesUpTo("jellyfin", 1, states) :
          LET sessions == MergeResults([a \in Sources |-> IF a = "plex" THEN rp ELSE rj])
          IN  /\ cache' = UpdateCache(cache, sessions)
              /\ installed' = sessions
    /\ last' = [op |-> "get_all_sessions"]
    /\ UNCHANGED <<refresh, store, files, shots, tasks, nextId>>

\* a handler looks a session up (take_screenshot line 40, take_clip line 128)
LookupSession(sid) ==
    /\ last' = [op |-> "get_cached_session", session_id |-> sid,
                found |-> GetCachedSession(cache, sid)]
    /\ UNCHANGED <<cache, refresh, installed, store, files, shots, tasks, nextId>>

----------------------------------------------------------------------------
(* Capture orchestrator: requests and their arithmetic *)

SessionIds == {SessionId(a, n) : a \in Sources, n \in 1 .. MaxUpstream}

\* models.ScreenshotRequest
ScreenshotRequest(sid, off) == [session_id |-> sid, offset_seconds |-> off]

\* models.ClipRequest: the three bounds are Optional[float] = None
ClipRequest(sid, rel, st, en) ==
    [session_id |-> sid, relative_seconds |-> rel, start_seconds |-> st,
     end_seconds |-> en]

\* the timestamp floored at 0 and not capped at the duration
ScreenshotTimestampNoCap(session, req) ==
    Max(0, session.position_seconds + req.offset_seconds)

\* take_screenshot lines 44-45
ScreenshotTimestamp(session, req) ==
    Min(Max(0, session.position_seconds + req.offset_seconds), session.duration_seconds)

\* the relative shape without the floor at 0
ResolveRelativeNoFloor(session, rel) ==
    LET start == session.position_seconds + rel
        end == session.position_seconds
    IN  IF start > end THEN [start |-> end, end |-> start]
        ELSE [start |-> start, end |-> end]

\* the relative shape without the swap
ResolveRelativeNoSwap(session, rel) ==
    [start |-> Max(0, session.position_seconds + rel), end |-> session.position_seconds]

\* take_clip lines 134-137: the relative shape
ResolveRelative(session, rel) ==
    LET start == Max(0, session.position_seconds + rel)
        end == session.position_seconds
    IN  IF start > end THEN [start |-> end, end |-> start]
        ELSE [start |-> start, end |-> end]

\* explicit bounds with the end not capped at the duration
ResolveExplicitNoCap(session, st, en) == [start |-> Max(0, st), end |-> en]

\* take_clip lines 139-140: explicit bounds
ResolveExplicit(session, st, en) ==
    [start |-> Max(0, st), end |-> Min(en, session.duration_seconds)]

\* a missing end bound read as the end of the media
ResolveClipOpenEnd(session, req) ==
    IF req.relative_seconds # None
    THEN Some(ResolveRelative(session, req.relative_seconds[1]))
    ELSE IF req.start_seconds # None
    THEN Some(ResolveExplicit(session, req.start_seconds[1],
                              IF req.end_seconds # None THEN req.end_seconds[1]
                              ELSE session.duration_seconds))
    ELSE None

\* take_clip lines 133-142: which shape is resolved; << >> when the request
\* is refused for its shape
ResolveClip(session, req) ==
    IF req.relative_seconds # None
    THEN Some(ResolveRelative(session, req.relative_seconds[1]))
    ELSE IF req.start_seconds # None /\ req.end_seconds # None
    THEN Some(ResolveExplicit(session, req.start_seconds[1], req.end_seconds[1]))
    ELSE None

\* the duration check without the ceiling
DurationStatusNoCeiling(duration) == IF duration <= 0 THEN 400 ELSE 200

\* take_clip lines 144-148: the HTTP status the duration check leads to
DurationStatus(duration) ==
    IF duration <= 0 THEN 400
    ELSE IF duration > MaxClipSeconds THEN 400
    ELSE 200

\* take_clip lines 128-148: the status of the request and, when it passes,
\* the start and the duration the record and the detached task get
ClipDecision(c, req) ==
    LET found == GetCachedSession(c, req.session_id)
    IN  IF found = None
        THEN [http |-> 404, detail |-> "Session not found"]
        ELSE LET resolved == ResolveClip(found[1], req)
             IN  IF resolved = None
                 THEN [http |-> 400, detail |-> "Provide relative_seconds or start_seconds + end_seconds"]
                 ELSE LET duration == resolved[1].end - resolved[1].start
                      IN  IF DurationStatus(duration) # 200
                          THEN [http |-> 400,
                                detail |-> IF duration <= 0
                                           THEN "Clip duration must be positive"
                                           ELSE "Maximum clip duration is 10 minutes"]
                          ELSE [http |-> 200, detail |-> "",
                                start |-> resolved[1].start, duration |-> duration]

----------------------------------------------------------------------------
(* Capture store and capture directory *)

CaptureIds == 1 .. MaxCaptures

\* the size os.path.getsize measures on a written artifact
FileSizes == {2048}

\* str(e) of what extract_screenshot / extract_clip raise
ExtractionErrors == {"FFmpeg failed"}

\* the INSERT without the status column: the row gets the column default
\* 'pending' of the schema
ScreenshotRowDefaultStatus(session, ts, now, size, status, error) ==
    [capture_type |-> "screenshot", source |-> session.source,
     media_path |-> session.media_path, timestamp_seconds |-> ts,
     duration_seconds |-> None, file_size_bytes |-> size,
     status |-> "pending", error_message |-> error, created_at |-> now]

\* INSERT INTO captures of take_screenshot, lines 66-80
ScreenshotRow(session, ts, now, size, status, error) ==
    [capture_type |-> "screenshot", source |-> session.source,
     media_path |-> session.media_path, timestamp_seconds |-> ts,
     duration_seconds |-> None, file_size_bytes |-> size,
     status |-> status, error_message |-> error, created_at |-> now]

\* take_clip inserting the row as already complete
ClipInsertStatusComplete == "complete"

\* the status literal of the INSERT of take_clip, line 163
ClipInsertStatus == "pending"

\* INSERT INTO captures of take_clip, lines 158-172
ClipRow(session, start, duration, now) ==
    [capture_type |-> "clip", source |-> session.source,
     media_path |-> session.media_path, timestamp_seconds |-> start,
     duration_seconds |-> Some(duration), file_size_bytes |-> 0,
     status |-> ClipInsertStatus, error_message |-> None, created_at |-> now]

\* UPDATE captures SET status='complete', file_size_bytes=? WHERE id=?
UpdateComplete(st, id, size) ==
    IF id \in DOMAIN st
    THEN [st EXCEPT ![id].status = "complete", ![id].file_size_bytes = size]
    ELSE st

\* the except branch without its UPDATE
UpdateFailedSkipped(st, id, error) == st

\* the UPDATE of the except branch setting the status alone
UpdateFailedNoMessage(st, id, error) ==
    IF id \in DOMAIN st THEN [st EXCEPT ![id].status = "failed"] ELSE st

\* UPDATE captures SET status='failed', error_message=? WHERE id=?
UpdateFailed(st, id, error) ==
    IF id \in DOMAIN st
    THEN [st EXCEPT ![id].status = "failed", ![id].error_message = Some(error)]
    ELSE st

\* DELETE FROM captures WHERE id = ?
DeleteRow(st, id) == [k \in DOMAIN st \ {id} |-> st[k]]

Drop(f, k) == [x \in DOMAIN f \ {k} |-> f[x]]

----------------------------------------------------------------------------
(* take_screenshot *)

\* the capture returned whatever the status of the extraction
ScreenshotResponseAlwaysOk(status) == 200

\* lines 84-98: the HTTP status of the answer, 500 "Screenshot failed: ..."
\* for a failed extraction and the Capture (200) otherwise
ScreenshotResponse(status) == IF status = "failed" THEN 500 ELSE 200

\* lines 40-42: the session is not in the cache
TakeScreenshotReject(req) ==
    /\ GetCachedSession(cache, req.session_id) = None
    /\ last' = [op |-> "take_screenshot", req |-> req, http |-> 404]
    /\ UNCHANGED <<cache, refresh, installed, store, files, shots, tasks, nextId>>

\* lines 40-54: session found, timestamp computed, id and creation time
\* taken, extract_screenshot started and awaited
TakeScreenshotStart(req) ==
    /\ GetCachedSession(cache, req.session_id) # None
    /\ nextId < MaxCaptures
    /\ LET session == GetCachedSession(cache, req.session_id)[1]
           id == nextId + 1
       IN  /\ shots' = (id :> [req |-> req, session |-> session,
                               ts |-> ScreenshotTimestamp(session, req), now |-> id]) @@ shots
           /\ last' = [op |-> "take_screenshot.extract", id |-> id]
    /\ nextId' = nextId + 1
    /\ UNCHANGED <<cache, refresh, installed, store, files, tasks>>

\* lines 54-98, extraction succeeded: the file is there, its size is
\* measured, the row is inserted as complete and the capture returned
TakeScreenshotComplete(id) ==
    /\ id \in DOMAIN shots
    /\ \E size \in FileSizes :
          /\ files' = files \cup {id}
          /\ store' = (id :> ScreenshotRow(shots[id].session, shots[id].ts, shots[id].now,
                                           size, "complete", None)) @@ store
          /\ last' = [op |-> "take_screenshot", req |-> shots[id].req,
                      session |-> shots[id].session, extract_ts |-> shots[id].ts,
                      http |-> ScreenshotResponse("complete"), id |-> id,
                      status |-> "complete"]
    /\ shots' = Drop(shots, id)
    /\ UNCHANGED <<cache, refresh, installed, tasks, nextId>>

\* lines 54-85, extract_screenshot raised (ffmpeg exit code, or no output
\* file; a failed ffmpeg may leave a partial file): the row is inserted as
\* failed and the caller gets a 500
TakeScreenshotFail(id) ==
    /\ id \in DOMAIN shots
    /\ \E error \in ExtractionErrors, leftover \in BOOLEAN :
          /\ files' = IF leftover /\ error = "FFmpeg failed" THEN files \cup {id} ELSE files
          /\ store' = (id :> ScreenshotRow(shots[id].session, shots[id].ts, shots[id].now,
                                           0, "failed", Some(error))) @@ store
          /\ last' = [op |-> "take_screenshot", req |-> shots[id].req,
                      session |-> shots[id].session, extract_ts |-> shots[id].ts,
                      http |-> ScreenshotResponse("failed"), id |-> id,
                      status |-> "failed"]
    /\ shots' = Drop(shots, id)
    /\ UNCHANGED <<cache, refresh, installed, tasks, nextId>>

----------------------------------------------------------------------------
(* take_clip and the detached _process_clip *)

\* the row inserted before the request is validated
TakeClipRejectAfterInsert(req) ==
    /\ ClipDecision(cache, req).http # 200
    /\ nextId < MaxCaptures
    /\ store' = (nextId + 1 :> [capture_type |-> "clip", status |-> "pending"]) @@ store
    /\ nextId' = nextId + 1
    /\ last' = [op |-> "take_clip", req |-> req,
                session |-> GetCachedSession(cache, req.session_id),
                http |-> ClipDecision(cache, req).http,
                detail |-> ClipDecision(cache, req).detail]
    /\ UNCHANGED <<cache, refresh, installed, files, shots, tasks>>

\* lines 128-148: the request is refused (404 or 400) before anything is written
TakeClipReject(req) ==
    /\ ClipDecision(cache, req).http # 200
    /\ last' = [op |-> "take_clip", req |-> req,
                session |-> GetCachedSession(cache, req.session_id),
                http |-> ClipDecision(cache, req).http,
                detail |-> ClipDecision(cache, req).detail]
    /\ UNCHANGED <<cache, refresh, installed, store, files, shots, tasks, nextId>>

\* lines 128-172: the request passes; the row is inserted and committed
TakeClipInsert(req) ==
    /\ ClipDecision(cache, req).http = 200
    /\ nextId < MaxCaptures
    /\ LET session == GetCachedSession(cache, req.session_id)[1]
           d == ClipDecision(cache, req)
           id == nextId + 1
       IN  /\ store' = (id :> ClipRow(session, d.start, d.duration, id)) @@ store
           /\ tasks' = (id :> [pc |-> "handler", req |-> Some(req),
                               session |-> Some(session),
                               start |-> d.start, duration |-> d.duration,
                               error |-> None]) @@ tasks
           /\ last' = [op |-> "take_clip.insert", id |-> id]
    /\ nextId' = nextId + 1
    /\ UNCHANGED <<cache, refresh, installed, files, shots>>

\* lines 174-192: the connection is closed, _process_clip is added to the
\* background tasks of the response (it gets the id, the path, start and
\* duration), and the pending capture is returned
TakeClipReturn(id) ==
    /\ id \in DOMAIN tasks
    /\ tasks[id].pc = "handler"
    /\ tasks' = [tasks EXCEPT ![id].pc = "queued", ![id].req = None, ![id].session = None]
    /\ last' = [op |-> "take_clip", req |-> tasks[id].req[1],
                session |-> tasks[id].session, http |-> 200, detail |-> "",
                id |-> id, status |-> "pending",
                timestamp_seconds |-> tasks[id].start,
                duration_seconds |-> tasks[id].duration]
    /\ UNCHANGED <<cache, refresh, installed, store, files, shots, nextId>>

\* _process_clip lines 108-111: extract_clip returned, the file exists
ProcessClipExtracted(id) ==
    /\ id \in DOMAIN tasks
    /\ tasks[id].pc = "queued"
    /\ files' = files \cup {id}
    /\ tasks' = [tasks EXCEPT ![id].pc = "extracted"]
    /\ last' = [op |-> "_process_clip.extract", id |-> id]
    /\ UNCHANGED <<cache, refresh, installed, store, shots, nextId>>

\* _process_clip lines 110, 116: extract_clip raised; a failed ffmpeg may
\* leave a partial file
ProcessClipRaised(id) ==
    /\ id \in DOMAIN tasks
    /\ tasks[id].pc = "queued"
    /\ \E error \in ExtractionErrors, leftover \in BOOLEAN :
          /\ files' = IF leftover /\ error = "FFmpeg failed" THEN files \cup {id} ELSE files
          /\ tasks' = [tasks EXCEPT ![id].pc = "raised", ![id].error = Some(error)]
    /\ last' = [op |-> "_process_clip.extract", id |-> id]
    /\ UNCHANGED <<cache, refresh, installed, store, shots, nextId>>

\* _process_clip lines 111-115, 122: the terminal update of a successful
\* extraction, committed
ProcessClipComplete(id) ==
    /\ id \in DOMAIN tasks
    /\ tasks[id].pc = "extracted"
    /\ \E size \in FileSizes : store' = UpdateComplete(store, id, size)
    /\ tasks' = [tasks EXCEPT ![id].pc = "done"]
    /\ last' = [op |-> "_process_clip", id |-> id]
    /\ UNCHANGED <<cache, refresh, installed, files, shots, nextId>>

\* _process_clip lines 116-122: the terminal update of a failed extraction,
\* committed
ProcessClipFailed(id) ==
    /\ id \in DOMAIN tasks
    /\ tasks[id].pc = "raised"
    /\ store' = UpdateFailed(store, id, tasks[id].error[1])
    /\ tasks' = [tasks EXCEPT ![id].pc = "done"]
    /\ last' = [op |-> "_process_clip", id |-> id]
    /\ UNCHANGED <<cache, refresh, installed, files, shots, nextId>>

----------------------------------------------------------------------------
(* delete_capture *)

\* lines 252-255: no row with this id
DeleteCaptureNotFound(id) ==
    /\ id \notin DOMAIN store
    /\ last' = [op |-> "delete_capture", id |-> id, http |-> 404]
    /\ UNCHANGED <<cache, refresh, installed, store, files, shots, tasks, nextId>>

\* what os.remove(row["file_path"]) does, line 259: it removes a file that is
\* there, or fails on it with another OSError (permission denied, the path
\* is a directory); on a path that does not exist it raises FileNotFoundError
RemoveOutcomes(exists) ==
    IF exists THEN {"removed", "OSError"} ELSE {"FileNotFoundError"}

\* the handler without its except clause
DeleteAnswerNoExcept(outcome) == IF outcome = "removed" THEN 200 ELSE 500

\* lines 258-268: FileNotFoundError is caught and passed over; any other
\* exception of os.remove leaves the handler (500) before the DELETE
DeleteAnswer(outcome) ==
    IF outcome \in {"removed", "FileNotFoundError"} THEN 200 ELSE 500

\* lines 252-268: os.remove succeeds or raises FileNotFoundError (swallowed);
\* the row is deleted and the deletion reported
DeleteCapture(id) ==
    /\ id \in DOMAIN store
    /\ \E outcome \in RemoveOutcomes(id \in files) : DeleteAnswer(outcome) = 200
    /\ files' = files \ {id}
    /\ store' = DeleteRow(store, id)
    /\ last' = [op |-> "delete_capture", id |-> id, http |-> 200,
                file_was_there |-> id \in files]
    /\ UNCHANGED <<cache, refresh, installed, shots, tasks, nextId>>

\* lines 258-266: os.remove raises another OSError (permission denied, the
\* path is a directory); only FileNotFoundError is caught, so the error
\* leaves the handler before the DELETE
DeleteCaptureRemoveError(id) ==
    /\ id \in DOMAIN store
    /\ \E outcome \in RemoveOutcomes(id \in files) : DeleteAnswer(outcome) # 200
    /\ last' = [op |-> "delete_capture", id |-> id, http |-> 500,
                file_was_there |-> id \in files]
    /\ UNCHANGED <<cache, refresh, installed, store, files, shots, tasks, nextId>>

----------------------------------------------------------------------------
(* services/ffmpeg: extract_screenshot *)

\* _seconds_to_timecode, lines 15-18: hours, minutes, seconds of "HH:MM:SS.mmm"
SecondsToTimecode(seconds) ==
    <<seconds \div 3600, (seconds % 3600) \div 60, seconds % 60>>

\* the time ffmpeg reads from a timecode
TimecodeSeconds(tc) == tc[1] * 3600 + tc[2] * 60 + tc[3]

\* an argument of the command line: an option or a value as written, or a
\* timecode
Arg(str) == [text |-> str, time |-> << >>]
TimecodeArg(seconds) == [text |-> "HH:MM:SS.mmm", time |-> SecondsToTimecode(seconds)]

\* the seek given as an output option, after the input
ExtractScreenshotCommandOutputSeek(media_path, timestamp_seconds, output_path) ==
    <<Arg("ffmpeg"), Arg("-i"), Arg(media_path), Arg("-ss"), TimecodeArg(timestamp_seconds),
      Arg("-frames:v"), Arg("1"), Arg("-q:v"), Arg("2"), Arg("-y"), Arg(output_path)>>

\* extract_screenshot lines 32-42: the command line
ExtractScreenshotCommand(media_path, timestamp_seconds, output_path) ==
    <<Arg("ffmpeg"), Arg("-ss"), TimecodeArg(timestamp_seconds), Arg("-i"), Arg(media_path),
      Arg("-frames:v"), Arg("1"), Arg("-q:v"), Arg("2"), Arg("-y"), Arg(output_path)>>

\* lines 45-58: how the run of the subprocess ends for the caller
ExtractOutcomes == {"returned", "FFmpeg failed", "FFmpeg produced no output file"}

\* extract_screenshot, lines 21-58: the command is built and run; the
\* coroutine returns, or raises on a non-zero exit code or a missing file
ExtractScreenshot(media_path, timestamp_seconds, output_path) ==
    /\ \E outcome \in ExtractOutcomes :
          last' = [op |-> "extract_screenshot", timestamp_seconds |-> timestamp_seconds,
                   cmd |-> ExtractScreenshotCommand(media_path, timestamp_seconds,
                                                    output_path),
                   outcome |-> outcome]
    /\ UNCHANGED <<cache, refresh, installed, store, files, shots, tasks, nextId>>

\* the timestamps take_screenshot hands over: every second of a stretch, and
\* some beyond a minute and an hour
SeekTimestamps == (0 .. MaxSeekSeconds) \cup {3599, 3600, 3661, 7325}

----------------------------------------------------------------------------
(* list_captures *)

\* the clock readings of datetime.now(timezone.utc) that differ in the
\* seconds and microseconds fields only
ClockReadings == {[sec |-> sc, micro |-> us] : sc \in {9, 10}, us \in {0, 500000}}

\* the decimal digits of n as character codes, zero-padded to width
RECURSIVE Digits(_, _)
Digits(n, width) ==
    IF width = 0 THEN << >> ELSE Append(Digits(n \div 10, width - 1), 48 + (n % 10))

\* datetime.isoformat() from the seconds field on, as character codes:
\* "SS" then ".ffffff" unless microsecond is 0, then "+00:00" (the fields
\* before the seconds are equal for the readings above)
IsoFormat(t) ==
    Digits(t.sec, 2)
    \o (IF t.micro = 0 THEN << >> ELSE <<46>> \o Digits(t.micro, 6))
    \o <<43, 48, 48, 58, 48, 48>>

\* SQLite BINARY collation on TEXT: byte-wise comparison, a proper prefix
\* sorts first
RECURSIVE TextLeq(_, _)
TextLeq(a, b) ==
    IF a = << >> THEN TRUE
    ELSE IF b = << >> THEN FALSE
    ELSE IF Head(a) # Head(b) THEN Head(a) < Head(b)
    ELSE TextLeq(Tail(a), Tail(b))

\* the listing that ignores its capture_type parameter
MatchingRowsUnfiltered(st, capture_type) == DOMAIN st

\* lines 205-209: WHERE capture_type = ? is added only for a truthy
\* parameter (None and "" list every row)
MatchingRows(st, capture_type) ==
    IF capture_type = None \/ capture_type = Some("") THEN DOMAIN st
    ELSE {id \in DOMAIN st : st[id].capture_type = capture_type[1]}

\* line 210, ORDER BY created_at DESC: the orders SQLite may deliver the
\* rows in; rows with equal created_at come in any order
OrderByCreatedAtDesc(st, ids) ==
    {o \in [1 .. Cardinality(ids) -> ids] :
        /\ \A i, j \in DOMAIN o : i # j => o[i] # o[j]
        /\ \A i, j \in DOMAIN o :
              i < j => TextLeq(st[o[j]].created_at, st[o[i]].created_at)}

\* line 210, LIMIT ? OFFSET ?
LimitOffset(rows, limit, offset) ==
    SubSeq(rows, offset + 1, Min(Len(rows), offset + limit))

\* list_captures, lines 198-217
ListCaptures(limit, offset, capture_type) ==
    /\ \E rows \in OrderByCreatedAtDesc(store, MatchingRows(store, capture_type)) :
          last' = [op |-> "list_captures", capture_type |-> capture_type,
                   limit |-> limit, offset |-> offset,
                   result |-> LimitOffset(rows, limit, offset)]
    /\ UNCHANGED <<cache, refresh, installed, store, files, shots, tasks, nextId>>

----------------------------------------------------------------------------
(* The system *)

Init ==
    /\ cache = EmptyCache
    /\ refresh = EmptyBag
    /\ installed = << >>
    /\ store = << >>
    /\ files = {}
    /\ shots = << >>
    /\ tasks = << >>
    /\ nextId = 0
    /\ last = [op |-> "none"]

\* the requests clients send
Offsets == {-150, 0, 50}

RelativeValues == {-700, -600, -300, -30, 0, 30}

ExplicitBounds ==
    {<<-50, 100>>, <<0, 2000>>, <<0, 700>>, <<100, 400>>, <<300, 200>>, <<2000, 3000>>,
     <<-50, -10>>}

ClipShapes ==
    {[rel |-> Some(r), st |-> None, en |-> None] : r \in RelativeValues}
    \cup {[rel |-> None, st |-> Some(b[1]), en |-> Some(b[2])] : b \in ExplicitBounds}
    \cup {[rel |-> None, st |-> None, en |-> None],
          [rel |-> None, st |-> Some(0), en |-> None],
          [rel |-> None, st |-> None, en |-> Some(100)],
          [rel |-> Some(-30), st |-> Some(0), en |-> Some(100)]}

ClipRequests ==
    {ClipRequest(sid, sh.rel, sh.st, sh.en) : sid \in SessionIds, sh \in ClipShapes}

ScreenshotRequests ==
    {ScreenshotRequest(sid, off) : sid \in SessionIds, off \in Offsets}

\* the requests of the lifecycle runs: one screenshot, one clip that passes
\* and one refused for each reason, per session id
FirstSessionIds == {SessionId(a, 1) : a \in Sources}

FewClipRequests ==
    {ClipRequest(sid, Some(-30), None, None) : sid \in FirstSessionIds}
    \cup {ClipRequest(sid, None, Some(300), Some(200)) : sid \in FirstSessionIds}
    \cup {ClipRequest(sid, None, Some(0), Some(2000)) : sid \in FirstSessionIds}
    \cup {ClipRequest(sid, None, Some(0), None) : sid \in FirstSessionIds}

FewScreenshotRequests == {ScreenshotRequest(sid, 0) : sid \in FirstSessionIds}

\* the states a get_all_sessions call in flight can be in
Calls(states) ==
    {[a \in Sources |-> IF a = "plex" THEN rp ELSE rj] :
        rp \in AdapterOutcomes("plex", states) \cup {Running},
        rj \in AdapterOutcomes("jellyfin", states) \cup {Running}}

AggregatorCalls == Calls(OnePlayState)

Aggregator ==
    \/ GetAllSessionsCall
    \/ \E call \in AggregatorCalls, a \in Sources : AdapterReturn(call, a, OnePlayState)
    \/ \E call \in AggregatorCalls, a \in Sources : AdapterRaise(call, a)
    \/ \E call \in AggregatorCalls : GetAllSessionsReturn(call)

Lookups == \E sid \in FirstSessionIds : LookupSession(sid)

Screenshots ==
    \/ \E req \in FewScreenshotRequests :
          TakeScreenshotReject(req) \/ TakeScreenshotStart(req)
    \/ \E id \in CaptureIds : TakeScreenshotComplete(id) \/ TakeScreenshotFail(id)

Clips ==
    \/ \E req \in FewClipRequests : TakeClipReject(req) \/ TakeClipInsert(req)
    \/ \E id \in CaptureIds :
          \/ TakeClipReturn(id)
          \/ ProcessClipExtracted(id)
          \/ ProcessClipRaised(id)
          \/ ProcessClipComplete(id)
          \/ ProcessClipFailed(id)

Deletes ==
    \E id \in CaptureIds :
        \/ DeleteCaptureNotFound(id)
        \/ DeleteCapture(id)
        \/ DeleteCaptureRemoveError(id)

\* the capture handlers, with get_all_sessions as one step
Next == GetAllSessions(OnePlayState) \/ Screenshots \/ Clips \/ Deletes

Spec == Init /\ [][Next]_vars

\* the steps of the clip work that the event loop takes without a client:
\* the handler runs to its return, the background task of the response is
\* started, the ffmpeg subprocess ends, the awaited UPDATE and commit
\* return
ClipWork(id) ==
    \/ TakeClipReturn(id)
    \/ ProcessClipExtracted(id)
    \/ ProcessClipRaised(id)
    \/ ProcessClipComplete(id)
    \/ ProcessClipFailed(id)

\* both servers have answered a refresh with one playback each
InitClips ==
    /\ LET sessions == MergeResults(
               [a \in Sources |-> Returned(<<Session(a, 1, "/media/a.mkv", 200, 1000)>>)])
       IN  /\ cache = UpdateCache(EmptyCache, sessions)
           /\ installed = sessions
    /\ refresh = EmptyBag
    /\ store = << >>
    /\ files = {}
    /\ shots = << >>
    /\ tasks = << >>
    /\ nextId = 0
    /\ last = [op |-> "none"]

\* clips are requested, worked on and deleted
NextClips ==
    \/ \E req \in FewClipRequests : TakeClipReject(req) \/ TakeClipInsert(req)
    \/ \E id \in CaptureIds : ClipWork(id)
    \/ Deletes

\* the event loop runs every coroutine that can run, and the extraction
\* subprocess terminates
SpecClips ==
    /\ InitClips
    /\ [][NextClips]_vars
    /\ \A id \in CaptureIds : WF_vars(ClipWork(id))

\* get_all_sessions called while no other call is in flight
SingleGetAllSessionsCall == refresh = EmptyBag /\ GetAllSessionsCall

\* one get_all_sessions call at a time, at the grain of its awaits, with
\* the cache readers
NextGather ==
    \/ SingleGetAllSessionsCall
    \/ \E call \in AggregatorCalls, a \in Sources : AdapterReturn(call, a, OnePlayState)
    \/ \E call \in AggregatorCalls, a \in Sources : AdapterRaise(call, a)
    \/ \E call \in AggregatorCalls : GetAllSessionsReturn(call)
    \/ Lookups

SpecGather == Init /\ [][NextGather]_vars

\* extract_screenshot alone, over the timestamps
NextExtract ==
    \E t \in SeekTimestamps : ExtractScreenshot("/media/a.mkv", t, "/data/captures/1.jpg")

SpecExtract == Init /\ [][NextExtract]_vars

\* the aggregator at the grain of its awaits, with the cache readers
NextAggregator == Aggregator \/ Lookups

SpecAggregator == Init /\ [][NextAggregator]_vars

\* the caches a get_all_sessions call can leave
InitResolve ==
    /\ \E rp \in AdapterOutcomes("plex", PlayStates),
          rj \in AdapterOutcomes("jellyfin", PlayStates) :
          LET sessions == MergeResults([a \in Sources |-> IF a = "plex" THEN rp ELSE rj])
          IN  /\ cache = UpdateCache(EmptyCache, sessions)
              /\ installed = sessions
    /\ refresh = EmptyBag
    /\ store = << >>
    /\ files = {}
    /\ shots = << >>
    /\ tasks = << >>
    /\ nextId = 0
    /\ last = [op |-> "none"]

\* one capture request, of every shape and on every playback of the sets
\* above, handled on such a cache up to the return of its handler
FirstScreenshotReject(req) == last.op = "none" /\ TakeScreenshotReject(req)
FirstScreenshotStart(req) == last.op = "none" /\ TakeScreenshotStart(req)
FirstClipReject(req) == last.op = "none" /\ TakeClipReject(req)
FirstClipInsert(req) == last.op = "none" /\ TakeClipInsert(req)

NextResolve ==
    \/ \E req \in ScreenshotRequests :
          FirstScreenshotReject(req) \/ FirstScreenshotStart(req)
    \/ \E req \in ClipRequests : FirstClipReject(req) \/ FirstClipInsert(req)
    \/ \E id \in CaptureIds :
          \/ TakeScreenshotComplete(id)
          \/ TakeScreenshotFail(id)
          \/ TakeClipReturn(id)

SpecResolve == InitResolve /\ [][NextResolve]_vars

\* the rows take_screenshot and take_clip write for one playback, created
\* at the clock readings above
ListedSession == Session("plex", 1, "/media/a.mkv", 200, 1000)

ListedRows ==
    {ScreenshotRow(ListedSession, 200, IsoFormat(t), 2048, "complete", None) :
        t \in ClockReadings}
    \cup {ClipRow(ListedSession, 170, 30, IsoFormat(t)) : t \in ClockReadings}

\* the table holds any rows the handlers have written
InitList ==
    /\ \E k \in 0 .. MaxListed : store \in [1 .. k -> ListedRows]
    /\ cache = EmptyCache
    /\ refresh = EmptyBag
    /\ installed = << >>
    /\ files = {}
    /\ shots = << >>
    /\ tasks = << >>
    /\ nextId = 0
    /\ last = [op |-> "none"]

\* Query(50, ge=1, le=200), Query(0, ge=0), Query(None)
Limits == {1, 2}
ListOffsets == {0, 1}
CaptureTypeParams == {None, Some(""), Some("clip"), Some("screenshot")}

\* one listing of the table (a listing leaves the table as it is)
FirstListCaptures(limit, offset, capture_type) ==
    last.op = "none" /\ ListCaptures(limit, offset, capture_type)

NextList ==
    \E limit \in Limits, offset \in ListOffsets, capture_type \in CaptureTypeParams :
        FirstListCaptures(limit, offset, capture_type)

SpecList == InitList /\ [][NextList]_vars

\* what a session query gets from one server: an answer, or an error
UpstreamAnswers(source) ==
    {[ok |-> FALSE, entries |-> << >>]}
    \cup {[ok |-> TRUE, entries |-> r] : r \in PictureResponses(source, MaxUpstream, OnePlayState)}

AdapterResult(source, answer) ==
    IF answer.ok THEN Returned(GetSessions(source, answer.entries)) ELSE Raised

\* a whole get_all_sessions call under a configuration, on the answers the
\* two servers give: the adapters build their sessions, the lists are merged
\* and cached
GetAllSessionsWith(settings, answers) ==
    /\ LET sessions == MergeResults([a \in Sources |-> AdapterResult(a, answers[a])])
       IN  /\ cache' = UpdateCache(cache, sessions)
           /\ installed' = sessions
    /\ last' = [op |-> "get_all_sessions", settings |-> settings, answers |-> answers,
                thumbnails |-> [a \in Sources |->
                                   ThumbnailsOf(a, settings, answers[a].entries)]]
    /\ UNCHANGED <<refresh, store, files, shots, tasks, nextId>>

SettingsChoices == {Settings(token, key) : token \in PlexTokens, key \in JellyfinApiKeys}

\* one call on the empty cache of a started process
FirstGetAllSessionsWith(settings, answers) ==
    last.op = "none" /\ GetAllSessionsWith(settings, answers)

NextAdapters ==
    \E settings \in SettingsChoices,
       rp \in UpstreamAnswers("plex"), rj \in UpstreamAnswers("jellyfin") :
        FirstGetAllSessionsWith(settings, [a \in Sources |-> IF a = "plex" THEN rp ELSE rj])

\* the adapters and the aggregator on every answer of the two servers
SpecAdapters == Init /\ [][NextAdapters]_vars

----------------------------------------------------------------------------
(* Properties *)

Range(seq) == {seq[i] : i \in DOMAIN seq}

Ids(sessions) == {s.session_id : s \in Range(sessions)}

\* the session with this id in a list, None when the list has none
FindIn(sessions, sid) ==
    IF sid \in Ids(sessions)
    THEN Some(CHOOSE s \in Range(sessions) : s.session_id = sid)
    ELSE None

Clamp(x, lo, hi) == IF x < lo THEN lo ELSE IF x > hi THEN hi ELSE x

Terminal == {"complete", "failed"}

ClipRows(st) == {id \in DOMAIN st : st[id].capture_type = "clip"}

\* C1: a clip row is inserted as pending, it is pending when take_clip
\* returns (unless it was deleted meanwhile) and the response says so; its
\* status then changes at most once, from pending to complete or to failed,
\* and a complete or failed row keeps its status in every later step.
C1_ClipLifecycle ==
    [][/\ \A id \in ClipRows(store') \ DOMAIN store : store'[id].status = "pending"
       /\ (last'.op = "take_clip" /\ last'.http = 200) =>
             /\ last'.status = "pending"
             /\ last'.id \in DOMAIN store' => store'[last'.id].status = "pending"
       /\ \A id \in ClipRows(store) \cap DOMAIN store' :
             /\ store'[id].capture_type = "clip"
             /\ store[id].status \in Terminal => store'[id].status = store[id].status
             /\ store[id].status = "pending" =>
                   store'[id].status \in {"pending"} \cup Terminal
       /\ \A id \in DOMAIN store' \ DOMAIN store : id \notin DOMAIN tasks
      ]_vars

\* a clip whose detached task has made its terminal update, followed by
\* another operation on the store
C1_Witness ==
    \E id \in ClipRows(store) :
        /\ store[id].status \in Terminal
        /\ tasks[id].pc = "done"
        /\ last.op = "delete_capture"

Succeeded(call) == {a \in Sources : call[a].st = "ok"}

SucceededSessions(call) == UNION {Range(call[a].result) : a \in Succeeded(call)}

\* C2: whichever adapters raised, get_all_sessions returns; the returned
\* list holds exactly the sessions of the adapters that succeeded, each once
\* (none when all failed), and right after the return get_cached_session
\* finds exactly these sessions and none of a failed adapter.
C2_PartialFailure ==
    last.op = "get_all_sessions" =>
        LET call == last.results
        IN  /\ Range(installed) = SucceededSessions(call)
            /\ Len(installed) = Cardinality(SucceededSessions(call))
            /\ last.failed = Sources \ Succeeded(call)
            /\ \A sid \in SessionIds :
                  /\ GetCachedSession(cache, sid) = FindIn(installed, sid)
                  /\ GetCachedSession(cache, sid) # None =>
                        GetCachedSession(cache, sid)[1] \in SucceededSessions(call)
                  /\ sid[1] \in last.failed => GetCachedSession(cache, sid) = None

\* a refresh has returned on which Plex raised and Jellyfin delivered a
\* session, while the cache held a Plex session before
C2_Witness ==
    /\ last.op = "get_all_sessions"
    /\ last.failed = {"plex"}
    /\ last.evicted
    /\ installed # << >>
    /\ GetCachedSession(cache, SessionId("jellyfin", 1)) # None

\* C3: in every state a reader can run in, the cache is the complete merged
\* result of one refresh, the one that returned last (the empty cache before
\* the first return), and every get_cached_session call answers from it.
C3_NoTornCache ==
    /\ DOMAIN cache = Ids(installed)
    /\ \A sid \in SessionIds : GetCachedSession(cache, sid) = FindIn(installed, sid)
    /\ last.op = "get_cached_session" => last.found = FindIn(installed, last.session_id)

\* a reader finds a session while two refreshes are in flight, one of them
\* holding a result that differs from the cache
C3_Witness ==
    /\ last.op = "get_cached_session"
    /\ last.found # None
    /\ BagCardinality(refresh) = 2
    /\ \E call \in BagToSet(refresh) :
          \E a \in Sources : /\ call[a].st = "ok"
                              /\ call[a].result = << >>
                              /\ SessionId(a, 1) \in DOMAIN cache

\* C4: after a get_all_sessions call has returned, the ids in the cache are
\* the ids of the returned list: an id cached before and absent from the
\* list is not found any more.
C4_NoStaleEntries ==
    last.op = "get_all_sessions" =>
        /\ DOMAIN cache = Ids(installed)
        /\ \A sid \in SessionIds \ Ids(installed) : GetCachedSession(cache, sid) = None

\* a refresh has returned that dropped a cached id and kept another session
C4_Witness ==
    /\ last.op = "get_all_sessions"
    /\ last.evicted
    /\ cache # EmptyCache

\* the handler that returned in the last step, and what it worked on
ScreenshotDone == last.op = "take_screenshot" /\ last.http \in {200, 500}

ClipHandled == last.op = "take_clip" /\ last.session # None

RelativeShape == ClipHandled /\ last.req.relative_seconds # None

ExplicitShape ==
    /\ ClipHandled
    /\ last.req.relative_seconds = None
    /\ last.req.start_seconds # None
    /\ last.req.end_seconds # None

Position == last.session[1].position_seconds
Duration == last.session[1].duration_seconds

\* C5: for a screenshot request on a cached session with position >= 0 and
\* duration >= 0, the timestamp handed to extract_screenshot and the
\* timestamp_seconds of the row are clamp(position + offset, 0, duration),
\* a value in [0, duration].
C5_ScreenshotClamped ==
    (/\ ScreenshotDone
     /\ last.session.position_seconds >= 0
     /\ last.session.duration_seconds >= 0) =>
        LET want == Clamp(last.session.position_seconds + last.req.offset_seconds,
                          0, last.session.duration_seconds)
        IN  /\ last.extract_ts = want
            /\ store[last.id].timestamp_seconds = want
            /\ 0 <= last.extract_ts
            /\ last.extract_ts <= last.session.duration_seconds

\* position 100, duration 120, offset 50: the screenshot is taken at 120
C5_Witness ==
    /\ ScreenshotDone
    /\ last.session.position_seconds = 100
    /\ last.session.duration_seconds = 120
    /\ last.req.offset_seconds = 50
    /\ store[last.id].timestamp_seconds = 120

\* C6: a clip request with relative_seconds <= 0 on a cached session
\* resolves to start = max(0, position + relative_seconds), end = position,
\* duration = end - start, and the row of an accepted request has
\* timestamp_seconds = start and duration_seconds = duration.
C6_RelativeBackwards ==
    (RelativeShape /\ last.req.relative_seconds[1] <= 0) =>
        LET start == Max(0, Position + last.req.relative_seconds[1])
            end == Position
        IN  /\ ResolveClip(last.session[1], last.req) = Some([start |-> start, end |-> end])
            /\ last.http = 200 =>
                  /\ store[last.id].timestamp_seconds = start
                  /\ store[last.id].duration_seconds = Some(end - start)
                  /\ last.timestamp_seconds = start
                  /\ last.duration_seconds = end - start

\* relative_seconds = -30 at position 200: start 170, duration 30
C6_Witness ==
    /\ RelativeShape
    /\ last.req.relative_seconds = Some(-30)
    /\ Position = 200
    /\ last.http = 200
    /\ store[last.id].timestamp_seconds = 170
    /\ store[last.id].duration_seconds = Some(30)

\* C7 as claimed: a relative request resolves to end = position whatever
\* the sign of relative_seconds, to the same start and end as the request
\* with the opposite sign.
C7_SignIgnored ==
    RelativeShape =>
        LET r == last.req.relative_seconds[1]
            got == ResolveClip(last.session[1], last.req)[1]
            mirrored == ResolveClip(last.session[1],
                                    [last.req EXCEPT !.relative_seconds = Some(0 - r)])[1]
        IN  /\ got.end = Position
            /\ got = mirrored

\* C7, amended: the sign decides the side of the position the clip lies on.
\* relative_seconds = -r (r >= 0) resolves to start = max(0, position - r),
\* end = position; relative_seconds = +r (r > 0) resolves, by the swap, to
\* start = position, end = position + r, and the row of an accepted request
\* then has timestamp_seconds = position and duration_seconds = r.
C7_SignDecidesSide ==
    (RelativeShape /\ Position >= 0) =>
        LET r == last.req.relative_seconds[1]
            got == ResolveClip(last.session[1], last.req)[1]
        IN  /\ r <= 0 => got = [start |-> Max(0, Position + r), end |-> Position]
            /\ r > 0 => /\ got = [start |-> Position, end |-> Position + r]
                        /\ last.http = 200 =>
                              /\ store[last.id].timestamp_seconds = Position
                              /\ store[last.id].duration_seconds = Some(r)

\* relative_seconds = +30 at position 200 is accepted as the clip from 200
\* to 230
C7_Witness ==
    /\ RelativeShape
    /\ last.req.relative_seconds = Some(30)
    /\ Position = 200
    /\ last.http = 200
    /\ store[last.id].timestamp_seconds = 200
    /\ store[last.id].duration_seconds = Some(30)

\* C8: an explicit-bounds clip request on a session of duration D >= 0 is
\* accepted exactly when the bounds clamped to [0, D] pass the duration
\* check, and the row of an accepted request has timestamp_seconds =
\* clamp(start_seconds, 0, D) and duration_seconds = clamp(end_seconds, 0, D)
\* - clamp(start_seconds, 0, D).
C8_ExplicitClamped ==
    (ExplicitShape /\ Duration >= 0) =>
        LET start == Clamp(last.req.start_seconds[1], 0, Duration)
            end == Clamp(last.req.end_seconds[1], 0, Duration)
        IN  /\ last.http = 200 <=> (0 < end - start /\ end - start <= MaxClipSeconds)
            /\ last.http = 200 =>
                  /\ store[last.id].timestamp_seconds = start
                  /\ store[last.id].duration_seconds = Some(end - start)

\* start_seconds = 0, end_seconds = 2000 on a playback of 120 seconds is
\* accepted as the clip of the whole 120 seconds
C8_Witness ==
    /\ ExplicitShape
    /\ last.req.start_seconds = Some(0)
    /\ last.req.end_seconds = Some(2000)
    /\ Duration = 120
    /\ last.http = 200
    /\ store[last.id].duration_seconds = Some(120)

\* C9: a clip request on a cached session that names a shape is accepted
\* if and only if its resolved duration end - start is in (0, 600]; a
\* duration <= 0 and a duration above 600 are refused with a 400.
C9_DurationWindow ==
    (ClipHandled /\ ResolveClip(last.session[1], last.req) # None) =>
        LET resolved == ResolveClip(last.session[1], last.req)[1]
            duration == resolved.end - resolved.start
        IN  /\ last.http = 200 <=> (0 < duration /\ duration <= 600)
            /\ duration <= 0 =>
                  last.http = 400 /\ last.detail = "Clip duration must be positive"
            /\ duration > 600 =>
                  last.http = 400 /\ last.detail = "Maximum clip duration is 10 minutes"
            /\ last.http = 200 => store[last.id].duration_seconds = Some(duration)

\* the reversed bounds 300, 200 on a playback that covers both are refused
C9_Witness ==
    /\ ExplicitShape
    /\ last.req.start_seconds = Some(300)
    /\ last.req.end_seconds = Some(200)
    /\ Duration = 1000
    /\ last.http = 400
    /\ store = << >>

\* C10: a clip request on a cached session without relative_seconds and
\* without both of start_seconds and end_seconds is refused with a 400.
C10_ShapeRequired ==
    (/\ ClipHandled
     /\ last.req.relative_seconds = None
     /\ last.req.start_seconds = None \/ last.req.end_seconds = None) =>
        /\ last.http = 400
        /\ last.detail = "Provide relative_seconds or start_seconds + end_seconds"
        /\ store = << >>

\* a request with start_seconds alone has been refused
C10_Witness ==
    /\ ClipHandled
    /\ last.req.relative_seconds = None
    /\ last.req.start_seconds = Some(0)
    /\ last.req.end_seconds = None
    /\ last.http = 400

\* C11: a clip request on a cached session that supplies relative_seconds
\* together with start_seconds and end_seconds is refused with a 400, and
\* nothing is stored for it.
C11_ExactlyOneShape ==
    (/\ ClipHandled
     /\ last.req.relative_seconds # None
     /\ last.req.start_seconds # None
     /\ last.req.end_seconds # None) =>
        /\ last.http = 400
        /\ store = << >>

\* the screenshot rows of the table
ScreenshotRows(st) == {id \in DOMAIN st : st[id].capture_type = "screenshot"}

\* C12: in every reachable state no screenshot row has status 'pending': a
\* screenshot whose extraction is still awaited has no row, and a screenshot
\* row is 'complete' or 'failed' from its insertion on.
C12_ScreenshotNeverPending ==
    /\ \A id \in ScreenshotRows(store) : store[id].status \in Terminal
    /\ \A id \in DOMAIN shots : id \notin DOMAIN store

\* a screenshot whose extraction failed has its row, right after the insert
C12_Witness ==
    /\ last.op = "take_screenshot"
    /\ last.http = 500
    /\ last.id \in ScreenshotRows(store)
    /\ store[last.id].status = "failed"

\* C13: when the extraction of a screenshot on a cached session fails,
\* take_screenshot has stored a row with status 'failed', file_size_bytes 0
\* and the error text, and answers with an error; when it succeeds the row
\* is 'complete' and the answer a success.  A success answer always has its
\* 'complete' row in the store.
C13_ScreenshotFailureSurfaced ==
    ScreenshotDone =>
        /\ last.id \in ScreenshotRows(store)
        /\ last.status = store[last.id].status
        /\ store[last.id].status = "failed" =>
              /\ last.http = 500
              /\ store[last.id].file_size_bytes = 0
              /\ store[last.id].error_message \in {Some(e) : e \in ExtractionErrors}
        /\ store[last.id].status = "complete" =>
              /\ last.http = 200
              /\ store[last.id].error_message = None
              /\ last.id \in files
        /\ last.http = 200 => store[last.id].status = "complete"

\* a screenshot whose extraction failed: the caller has its error, the store
\* the failed row with the message
C13_Witness ==
    /\ ScreenshotDone
    /\ last.http = 500
    /\ store[last.id].status = "failed"
    /\ store[last.id].file_size_bytes = 0
    /\ store[last.id].error_message = Some("FFmpeg failed")

\* C14: delete_capture on an existing row whose backing file is already
\* missing removes the row and reports success.
C14_DeleteWithMissingFile ==
    [][\A id \in CaptureIds :
          (/\ last'.op = "delete_capture"
           /\ last'.id = id
           /\ id \in DOMAIN store
           /\ id \notin files) =>
              /\ last'.http = 200
              /\ id \notin DOMAIN store'
              /\ files' = files
      ]_vars

\* the row of a capture that left no file has been deleted
C14_Witness ==
    /\ last.op = "delete_capture"
    /\ last.http = 200
    /\ ~last.file_was_there
    /\ last.id \notin DOMAIN store
    /\ last.id <= nextId

\* the clock readings a created_at text stands for
ReadingsOf(text) == {t \in ClockReadings : IsoFormat(t) = text}

NotLater(t, u) == t.sec < u.sec \/ (t.sec = u.sec /\ t.micro <= u.micro)

\* C15: whatever the table holds and whatever limit and offset are,
\* list_captures with capture_type = 'clip' returns clip rows only, and the
\* rows of every list_captures result are in non-increasing created_at
\* order, as texts and as the times the texts stand for.
C15_ListFilteredAndOrdered ==
    last.op = "list_captures" =>
        LET rows == last.result
        IN  /\ Range(rows) \subseteq DOMAIN store
            /\ last.capture_type = Some("clip") =>
                  \A i \in DOMAIN rows : store[rows[i]].capture_type = "clip"
            /\ \A i, j \in DOMAIN rows :
                  i < j =>
                     /\ TextLeq(store[rows[j]].created_at, store[rows[i]].created_at)
                     /\ \A t \in ReadingsOf(store[rows[i]].created_at),
                           u \in ReadingsOf(store[rows[j]].created_at) : NotLater(u, t)

\* a clip listing of two rows from a table that also holds a screenshot,
\* the clips created in the same second at microsecond 0 and 500000
C15_Witness ==
    /\ last.op = "list_captures"
    /\ last.capture_type = Some("clip")
    /\ Len(last.result) = 2
    /\ \E id \in DOMAIN store : store[id].capture_type = "screenshot"
    /\ store[last.result[1]].created_at = IsoFormat([sec |-> 9, micro |-> 500000])
    /\ store[last.result[2]].created_at = IsoFormat([sec |-> 9, micro |-> 0])

\* the entries of the answers of the servers that answered
AnsweredEntries(answers) ==
    UNION {{[source |-> a, entry |-> answers[a].entries[i]] :
               i \in DOMAIN answers[a].entries} : a \in {b \in Sources : answers[b].ok}}

\* C16: in every reachable state every session of the list get_all_sessions
\* returned and every session in the cache has a non-empty media_path; the
\* sessions returned are those of the upstream entries that carry a file
\* path, an entry without one being skipped by its adapter.
C16_NoSessionWithoutPath ==
    /\ \A s \in Range(installed) : s.media_path # ""
    /\ \A sid \in DOMAIN cache : cache[sid].media_path # ""
    /\ last.op = "get_all_sessions" =>
          Ids(installed) = {SessionId(x.source, x.entry.sid) :
                              x \in {y \in AnsweredEntries(last.answers) : y.entry.path # ""}}

\* Plex answered with one Video without a Part file and Jellyfin with one
\* item with a path: the Jellyfin session alone is returned and cached
C16_Witness ==
    /\ last.op = "get_all_sessions"
    /\ last.answers["plex"].ok
    /\ Len(last.answers["plex"].entries) = 1
    /\ last.answers["plex"].entries[1].path = ""
    /\ Ids(installed) = {SessionId("jellyfin", 1)}
    /\ DOMAIN cache = {SessionId("jellyfin", 1)}

\* C17: the thumbnail_url of no session an adapter builds contains the
\* credential of the adapter, and a run under another token / API key on
\* the same answers builds the same thumbnail_url values.
C17_NoCredentialInThumbnail ==
    last.op = "get_all_sessions" =>
        /\ \A a \in Sources : \A i \in DOMAIN last.thumbnails[a] :
              \A k \in DOMAIN last.thumbnails[a][i] :
                 last.thumbnails[a][i][k].text
                    \notin {last.settings.plex_token, last.settings.jellyfin_api_key}
        /\ \A other \in SettingsChoices : \A a \in Sources :
              ThumbnailsOf(a, other, last.answers[a].entries) = last.thumbnails[a]

\* a capture request answered with a refusal in this step
Refused ==
    /\ last'.op \in {"take_screenshot", "take_clip"}
    /\ last'.http \in {400, 404}

\* C18: a screenshot or clip request that is refused (session id not in
\* the cache, missing clip bounds, duration not positive or above 600
\* seconds) leaves the table and the capture directory as they are and
\* starts no extraction: no row is inserted, no id taken, no screenshot
\* extraction and no detached task started.
C18_RejectionWritesNothing ==
    [][Refused => /\ store' = store
                  /\ files' = files
                  /\ shots' = shots
                  /\ tasks' = tasks
                  /\ nextId' = nextId]_vars

\* a clip request refused for its duration above 600 seconds while the
\* table holds an earlier capture
C18_Witness ==
    /\ last.op = "take_clip"
    /\ last.http = 400
    /\ last.detail = "Maximum clip duration is 10 minutes"
    /\ store # << >>
    /\ nextId = 1

\* C19: under fairness and with a terminating extraction, every clip row
\* inserted as 'pending' is eventually 'complete' or 'failed' unless it is
\* deleted; the _process_clip task of every accepted clip request finishes,
\* stays finished, and the terminal update of a row is made by the step
\* that finishes its task.
C19_ClipEventuallyTerminal ==
    /\ \A id \in CaptureIds :
          (id \in ClipRows(store) /\ store[id].status = "pending")
             ~> (id \notin DOMAIN store \/ store[id].status \in Terminal)
    /\ \A id \in CaptureIds : (id \in DOMAIN tasks) ~> (id \in DOMAIN tasks /\ tasks[id].pc = "done")
    /\ [][\A id \in DOMAIN tasks :
             /\ tasks[id].pc = "done" => (id \in DOMAIN tasks' /\ tasks'[id].pc = "done")
             /\ (/\ id \in DOMAIN store /\ id \in DOMAIN store'
                 /\ store'[id].status # store[id].status) =>
                    (tasks[id].pc # "done" /\ tasks'[id].pc = "done")
        ]_vars

\* the task of a clip whose extraction raised has made its update: the row
\* is 'failed' with the error text
C19_Witness ==
    /\ last.op = "_process_clip"
    /\ last.id \in ClipRows(store)
    /\ tasks[last.id].pc = "done"
    /\ store[last.id].status = "failed"
    /\ store[last.id].error_message # None

\* C20: delete_capture on an existing row removes the row whatever the
\* attempt to remove the backing file did: removed, file missing,
\* permission denied, path is a directory.
C20_DeleteUnconditional ==
    [][\A id \in CaptureIds :
          (last'.op = "delete_capture" /\ last'.id = id /\ id \in DOMAIN store) =>
              id \notin DOMAIN store'
      ]_vars

\* C21: in every interleaving of take_clip, _process_clip and
\* delete_capture every artifact file in the capture directory belongs to a
\* row of the table: once delete_capture has succeeded for an id, no file of
\* that id exists or is created later.
C21_NoOrphanFile == \A id \in files : id \in DOMAIN store

\* C22: in every reachable state a row has an error_message if and only if
\* its status is 'failed', for screenshots and for clips.
C22_ErrorMessageIffFailed ==
    \A id \in DOMAIN store :
        (store[id].error_message # None) <=> (store[id].status = "failed")

\* the row of a clip whose extraction raised and left a partial file: it is
\* 'failed' and carries the text of the exception
C22_Witness ==
    \E id \in ClipRows(store) :
        /\ store[id].status = "failed"
        /\ store[id].error_message = Some("FFmpeg failed")
        /\ id \in files

\* the call in flight has become `new` by the end of adapter a alone
OnlyAdapterEnded(call, new, a) ==
    /\ call[a].st = "running"
    /\ new[a].st # "running"
    /\ \A b \in Sources \ {a} : new[b] = call[b]

\* C23: get_all_sessions starts the calls of all adapters before it awaits
\* the result of any; an adapter that fails, before or after the other has
\* finished, does not cancel the other call, which runs to its end; the
\* call returns only when every adapter has ended, with the sessions of the
\* adapters that succeeded in its result.
C23_AllStartedNoneCancelled ==
    /\ [][/\ last'.op = "get_all_sessions.call" =>
                refresh' = refresh (+) SetToBag({[a \in Sources |-> Running]})
          /\ last'.op = "get_sessions" =>
                \E call \in BagToSet(refresh), new \in BagToSet(refresh'), a \in Sources :
                   /\ OnlyAdapterEnded(call, new, a)
                   /\ refresh' = Replace(refresh, call, new)
          /\ last'.op = "get_all_sessions" =>
                /\ BagIn(last'.results, refresh)
                /\ \A a \in Sources : last'.results[a].st \in {"ok", "err"}
                /\ \A a \in Succeeded(last'.results) :
                      Range(last'.results[a].result) \subseteq Range(installed')
         ]_vars
    /\ [](\A call \in BagToSet(refresh) : \A a \in Sources :
             call[a].st = "err" =>
                \A b \in Sources \ {a} :
                   \/ call[b].st = "running"
                   \/ call[b] \in AdapterOutcomes(b, OnePlayState))

\* a call in flight holds the exception of the Jellyfin adapter and the
\* session the Plex adapter returned
C23_Witness ==
    /\ last.op = "get_sessions"
    /\ \E call \in BagToSet(refresh) :
          /\ call["jellyfin"].st = "err"
          /\ call["plex"].st = "ok"
          /\ call["plex"].result # << >>

\* the positions of an option in a command line, and of the input
PositionsOf(cmd, option) == {i \in DOMAIN cmd : cmd[i] = Arg(option)}

InputAt(cmd) == CHOOSE i \in DOMAIN cmd : cmd[i] = Arg("-i")

\* the seeks of a command line before and after its input: the times of
\* the -ss options
SeeksBefore(cmd) ==
    {TimecodeSeconds(cmd[i + 1].time) : i \in {k \in PositionsOf(cmd, "-ss") : k < InputAt(cmd)}}

SeeksAfter(cmd) ==
    {TimecodeSeconds(cmd[i + 1].time) : i \in {k \in PositionsOf(cmd, "-ss") : k > InputAt(cmd)}}

OneFrame(cmd) ==
    \E i \in PositionsOf(cmd, "-frames:v") : i + 1 \in DOMAIN cmd /\ cmd[i + 1] = Arg("1")

\* C24 as claimed: for every timestamp t >= 0 the command has a coarse seek
\* to c = max(0, t - 5) before the input and a fine seek of t - c after it,
\* and emits exactly one frame.
C24_TwoStageSeek ==
    last.op = "extract_screenshot" =>
        LET t == last.timestamp_seconds
            c == Max(0, t - 5)
        IN  /\ SeeksBefore(last.cmd) = {c}
            /\ SeeksAfter(last.cmd) = {t - c}
            /\ OneFrame(last.cmd)

\* C24, amended: for every timestamp t >= 0 of whole seconds the command
\* has a single seek, -ss with the timecode of t placed before the input,
\* and no seek after the input; the timecode reads back as t, and exactly
\* one frame is emitted.
C24_SingleInputSeek ==
    last.op = "extract_screenshot" =>
        /\ Cardinality(PositionsOf(last.cmd, "-ss")) = 1
        /\ Cardinality(PositionsOf(last.cmd, "-i")) = 1
        /\ SeeksBefore(last.cmd) = {last.timestamp_seconds}
        /\ SeeksAfter(last.cmd) = {}
        /\ \A i \in PositionsOf(last.cmd, "-ss") :
              /\ last.cmd[i + 1].time[2] \in 0 .. 59
              /\ last.cmd[i + 1].time[3] \in 0 .. 59
        /\ OneFrame(last.cmd)

\* the screenshot at 3661 seconds: one seek, to 01:01:01, before the input
C24_Witness ==
    /\ last.op = "extract_screenshot"
    /\ last.timestamp_seconds = 3661
    /\ last.cmd[2] = Arg("-ss")
    /\ last.cmd[3].time = <<1, 1, 1>>
    /\ last.cmd[4] = Arg("-i")
    /\ last.outcome = "returned"

====
